---- MODULE Spec2Model ----
(***************************************************************************)
(* Car-rental REST core: the request schemas of app/schemas/car.py and     *)
(* app/schemas/review.py and the car endpoints of app/routers/car.py.      *)
(*                                                                         *)
(* A request is received, handled (schema validation, then the endpoint's  *)
(* body) and its response returned.  The persistence service               *)
(* (app/services/car.py) is not part of the sources at hand; it is         *)
(* modelled from the specification as a table of car rows keyed by id.     *)
(*                                                                         *)
(* Values.  An optional JSON member / Python Optional is a sequence of     *)
(* length 0 (absent, None) or 1 (<<v>>).  Prices are integers (whole       *)
(* currency units); strings are TLA+ strings, a review comment is a        *)
(* sequence of characters.                                                 *)
(***************************************************************************)
EXTENDS Integers, Sequences, FiniteSets, TLC

VARIABLES
    now_year,   \* the calendar year datetime.now().year reads
    boot_year,  \* the year read when app/schemas/car.py was imported
    cars,       \* the cars table: id -> row
    next_id,    \* the next primary key the cars table hands out
    request,    \* the request being served, or Idle
    response    \* the response to it, or Pending while it is not handled

vars == <<now_year, boot_year, cars, next_id, request, response>>

-----------------------------------------------------------------------------
(* Program constants *)

MinYear == 1900
MinPrice == 0
MinRating == 1
MaxRating == 5
MaxCommentLength == 500
MinCarId == 1

(* Bounds of the model *)

EarliestNow == 2025     \* the first calendar year the clock may show
ClockTicks == 1         \* new years that may pass while the service runs
YearSlack == 1          \* submitted years reach this far around each boundary
RatingSlack == 1        \* submitted ratings reach this far outside [1, 5]
CommentSlack == 1       \* submitted comment lengths reach this far around 500
RegularUsers == 2       \* ordinary (non-admin) users
MaxCars == 2            \* rows the cars table ever hands an id to

-----------------------------------------------------------------------------
(* Python values *)

None == <<>>
Some(v) == <<v>>
IsNone(o) == o = <<>>

Ok(v) == [ok |-> TRUE, value |-> v]
Raise(exc) == [ok |-> FALSE, exc |-> exc]

ValueError(msg) == [type |-> "ValueError", msg |-> msg]
HTTPException(status_code, detail) ==
    [type |-> "HTTPException", status_code |-> status_code, detail |-> detail]

(* One entry of a pydantic ValidationError: the field and the error type. *)
FieldError(loc, type) == [loc |-> loc, type |-> type]

YearValueError == {FieldError("year", "value_error")}
PriceBelowMinimumError == {FieldError("price_per_day", "greater_than_equal")}
RatingMissingError == {FieldError("rating", "missing")}
RatingOutOfRangeError == {FieldError("rating", "out_of_range")}
CommentMissingError == {FieldError("comment", "missing")}
CommentTooLongError == {FieldError("comment", "string_too_long")}
CarIdBelowMinimumError == {FieldError("car_id", "greater_than_equal")}

YearTooEarly == Raise(ValueError(<<"Year cannot be earlier than 1900">>))

-----------------------------------------------------------------------------
(* app/schemas/car.py *)

YearInFutureInclusive(value, current_year) == value >= current_year

YearInFuture(value, current_year) == value > current_year

validate_year(value, now) ==
    LET current_year == now + 1
    IN  IF YearInFuture(value, current_year)
        THEN Raise(ValueError(<<"Year cannot be in the future. Current year is", current_year>>))
        ELSE IF value < MinYear
        THEN YearTooEarly
        ELSE Ok(value)

CarFields ==
    {"make", "model", "year", "transmission_type", "motor_type",
     "price_per_day", "description", "is_listed"}

(* The fields of CarCreate declared without a default. *)
CarCreateRequired ==
    {"make", "model", "transmission_type", "motor_type", "price_per_day"}

MissingErrors(body, required) ==
    {FieldError(f, "missing") : f \in {g \in required : IsNone(body[g])}}

(* @field_validator("year") of CarBase and CarCreate: runs on a supplied    *)
(* year only; the default is not validated.                                *)
YearFieldErrors(body, now) ==
    IF IsNone(body.year) THEN {}
    ELSE IF validate_year(body.year[1], now).ok THEN {}
    ELSE YearValueError

CarCreate(body, now, default_year) ==
    LET errors == MissingErrors(body, CarCreateRequired) \cup YearFieldErrors(body, now)
    IN  IF errors # {} THEN [ok |-> FALSE, errors |-> errors]
        ELSE [ok |-> TRUE, errors |-> {},
              value |->
                [make |-> body.make[1],
                 model |-> body.model[1],
                 year |-> IF IsNone(body.year) THEN default_year
                          ELSE validate_year(body.year[1], now).value,
                 transmission_type |-> body.transmission_type[1],
                 motor_type |-> body.motor_type[1],
                 price_per_day |-> body.price_per_day[1],
                 description |-> body.description,
                 is_listed |-> IF IsNone(body.is_listed) THEN TRUE
                               ELSE body.is_listed[1]]]

CarBase(body, now, default_year) ==
    LET errors == MissingErrors(body, CarCreateRequired \cup {"owner_id"})
                    \cup YearFieldErrors(body, now)
    IN  IF errors # {} THEN [ok |-> FALSE, errors |-> errors]
        ELSE [ok |-> TRUE, errors |-> {},
              value |->
                [owner_id |-> body.owner_id[1],
                 make |-> body.make[1],
                 model |-> body.model[1],
                 year |-> IF IsNone(body.year) THEN default_year
                          ELSE validate_year(body.year[1], now).value,
                 transmission_type |-> body.transmission_type[1],
                 motor_type |-> body.motor_type[1],
                 price_per_day |-> body.price_per_day[1],
                 description |-> body.description,
                 is_listed |-> IF IsNone(body.is_listed) THEN TRUE
                               ELSE body.is_listed[1]]]

(* CarUpdate.year when the member is absent: the declared default, None.   *)
CarUpdateYearDefaultAsCreate(default_year) == Some(default_year)

CarUpdateYearDefault(default_year) == None

(* Field(None, ge=0) on CarUpdate.price_per_day. *)
PriceBelowMinimum(price) == price < MinPrice

CarUpdate(body, now, default_year) ==
    LET year_errors ==
            \* validate_year_field: "if value is not None"
            IF IsNone(body.year) THEN {}
            ELSE IF validate_year(body.year[1], now).ok THEN {}
            ELSE YearValueError
        price_errors ==
            IF IsNone(body.price_per_day) THEN {}
            ELSE IF PriceBelowMinimum(body.price_per_day[1])
            THEN PriceBelowMinimumError
            ELSE {}
        errors == year_errors \cup price_errors
    IN  IF errors # {} THEN [ok |-> FALSE, errors |-> errors]
        ELSE [ok |-> TRUE, errors |-> {},
              value |->
                [make |-> body.make,
                 model |-> body.model,
                 year |-> IF IsNone(body.year) THEN CarUpdateYearDefault(default_year)
                          ELSE Some(validate_year(body.year[1], now).value),
                 transmission_type |-> body.transmission_type,
                 motor_type |-> body.motor_type,
                 price_per_day |-> body.price_per_day,
                 description |-> body.description,
                 is_listed |-> body.is_listed]]

(* CarDisplay.model_validate(db_car): every declared attribute is read off  *)
(* the row; description alone may be None.                                 *)
CarDisplayFields == (CarFields \ {"description"}) \cup {"id", "owner_id"}

CarDisplay_model_validate(db_car) ==
    CarDisplayFields \subseteq DOMAIN db_car

-----------------------------------------------------------------------------
(* app/schemas/review.py *)

ReviewBaseRatingBelowMax(rating) == rating >= MinRating /\ rating < MaxRating

(* conint(ge=1, le=5) *)
ReviewBaseRatingInRange(rating) == rating >= MinRating /\ rating <= MaxRating

(* Field(..., ge=1, le=5) *)
ReviewCreateRatingInRange(rating) == rating >= MinRating /\ rating <= MaxRating

ReviewBaseCommentUnchecked(comment) == TRUE

(* constr(max_length=500) *)
ReviewBaseCommentFits(comment) == Len(comment) <= MaxCommentLength

(* Field(..., max_length=500) *)
ReviewCreateCommentFits(comment) == Len(comment) <= MaxCommentLength

(* ReviewBase: the second annotation of comment replaces the first, the    *)
(* class attribute None of the first stays as the default: comment may be  *)
(* left out, and a supplied one is length-checked.                         *)
ReviewBase(body) ==
    LET rating_errors ==
            IF IsNone(body.rating) THEN RatingMissingError
            ELSE IF ReviewBaseRatingInRange(body.rating[1]) THEN {}
            ELSE RatingOutOfRangeError
        comment_errors ==
            IF IsNone(body.comment) THEN {}
            ELSE IF ReviewBaseCommentFits(body.comment[1]) THEN {}
            ELSE CommentTooLongError
        errors == MissingErrors(body, {"rental_id", "reviewer_id", "reviewee_id"})
                    \cup rating_errors \cup comment_errors
    IN  IF errors # {} THEN [ok |-> FALSE, errors |-> errors]
        ELSE [ok |-> TRUE, errors |-> {},
              value |-> [rental_id |-> body.rental_id[1],
                         reviewer_id |-> body.reviewer_id[1],
                         reviewee_id |-> body.reviewee_id[1],
                         rating |-> body.rating[1],
                         comment |-> body.comment]]

(* ReviewCreate: rental_id, reviewee_id, rating and comment are required.  *)
ReviewCreate(body) ==
    LET rating_errors ==
            IF IsNone(body.rating) THEN RatingMissingError
            ELSE IF ReviewCreateRatingInRange(body.rating[1]) THEN {}
            ELSE RatingOutOfRangeError
        comment_errors ==
            IF IsNone(body.comment) THEN CommentMissingError
            ELSE IF ReviewCreateCommentFits(body.comment[1]) THEN {}
            ELSE CommentTooLongError
        errors == MissingErrors(body, {"rental_id", "reviewee_id"})
                    \cup rating_errors \cup comment_errors
    IN  IF errors # {} THEN [ok |-> FALSE, errors |-> errors]
        ELSE [ok |-> TRUE, errors |-> {},
              value |-> [rental_id |-> body.rental_id[1],
                         reviewee_id |-> body.reviewee_id[1],
                         rating |-> body.rating[1],
                         comment |-> body.comment[1]]]

-----------------------------------------------------------------------------
(* app/schemas/enums.py and app/services/car.py: not among the sources at  *)
(* hand; modelled from the specification.                                  *)

ADMIN == "admin"
USER == "user"

CarTransmissionType == {"Manual", "Automatic"}
CarEngineType == {"Petrol", "Electric"}

NotFound == Raise(HTTPException(404, "Car not found"))

(* car.get_car: the row, or NotFound for an id the table does not hold. *)
car_get_car(db, car_id) ==
    IF car_id \in DOMAIN db THEN Ok(db[car_id]) ELSE NotFound

(* car.create_car: a new row from the validated request and the owner. *)
car_create_car(new_id, req, owner_id) ==
    [id |-> new_id,
     owner_id |-> owner_id,
     make |-> req.make,
     model |-> req.model,
     year |-> req.year,
     transmission_type |-> req.transmission_type,
     motor_type |-> req.motor_type,
     price_per_day |-> req.price_per_day,
     description |-> req.description,
     is_listed |-> req.is_listed]

(* car.update_car: merge-patch; a member the request leaves None keeps the *)
(* row's value.                                                            *)
car_update_car(row, req) ==
    [f \in DOMAIN row |->
        IF f \notin CarFields THEN row[f]
        ELSE IF IsNone(req[f]) THEN row[f]
        ELSE IF f = "description" THEN req[f]
        ELSE req[f][1]]

(* car.delete_car: the table without the row. *)
car_delete_car(db, car_id) ==
    [i \in DOMAIN db \ {car_id} |-> db[i]]

Insert(db, row) ==
    [i \in DOMAIN db \cup {row.id} |-> IF i = row.id THEN row ELSE db[i]]

-----------------------------------------------------------------------------
(* The acting users oauth2 resolves: ordinary users and one admin. *)

Users ==
    {[id |-> i, user_type |-> USER] : i \in 1..RegularUsers}
        \cup {[id |-> RegularUsers + 1, user_type |-> ADMIN]}

Idle == [op |-> "idle"]
Pending == [status_code |-> 0]

Request(op, user, car_id, body) ==
    [op |-> op, user |-> user, car_id |-> car_id, body |-> body]

(* FastAPI's answer to a request whose body or path fails validation. *)
Unprocessable(errors) == [status_code |-> 422, detail |-> errors]
Success(content) == [status_code |-> 200, content |-> content]
InternalServerError == [status_code |-> 500, detail |-> "Internal Server Error"]
Failure(exc) ==
    IF exc.type = "HTTPException"
    THEN [status_code |-> exc.status_code, detail |-> exc.detail]
    ELSE InternalServerError

-----------------------------------------------------------------------------
(* app/routers/car.py *)

create_car_owner_hardcoded(current_user, req) == 1

(* create_car: the owner handed to car.create_car. *)
create_car_owner(current_user, req) == current_user.id

create_car ==
    /\ request.op = "create_car"
    /\ response = Pending
    /\ LET parsed == CarCreate(request.body, now_year, boot_year)
       IN  IF ~parsed.ok
           THEN /\ response' = Unprocessable(parsed.errors)
                /\ UNCHANGED <<cars, next_id>>
           ELSE LET row == car_create_car(next_id, parsed.value,
                                          create_car_owner(request.user, parsed.value))
                IN  /\ cars' = Insert(cars, row)
                    /\ next_id' = next_id + 1
                    /\ response' = Success(row)
    /\ UNCHANGED <<now_year, boot_year, request>>

get_car_path_invalid == Unprocessable(CarIdBelowMinimumError)
get_car_validation_error ==
    [status_code |-> 422, detail |-> "Validation error occurred"]
get_car_unexpected_error ==
    [status_code |-> 500, detail |-> "An unexpected error occurred"]

(* get_car: try / except ValidationError / except Exception. *)
get_car ==
    /\ request.op = "get_car"
    /\ response = Pending
    /\ response' =
         IF request.car_id < MinCarId
         THEN get_car_path_invalid
         ELSE LET found == car_get_car(cars, request.car_id)
              IN  IF ~found.ok
                  THEN \* HTTPException is an Exception: the second handler takes it
                       IF found.exc.type = "ValidationError"
                       THEN get_car_validation_error
                       ELSE get_car_unexpected_error
                  ELSE IF ~CarDisplay_model_validate(found.value)
                  THEN get_car_validation_error
                  ELSE Success(found.value)
    /\ UNCHANGED <<now_year, boot_year, cars, next_id, request>>

update_car_not_authorized ==
    Failure(HTTPException(403, "You are not authorized to update this car"))

update_car_forbidden_either(current_user, db_car) ==
    current_user.user_type # ADMIN \/ db_car.owner_id # current_user.id

update_car_forbidden(current_user, db_car) ==
    current_user.user_type # ADMIN /\ db_car.owner_id # current_user.id

update_car ==
    /\ request.op = "update_car"
    /\ response = Pending
    /\ LET parsed == CarUpdate(request.body, now_year, boot_year)
           found == car_get_car(cars, request.car_id)
       IN  IF ~parsed.ok
           THEN /\ response' = Unprocessable(parsed.errors)
                /\ cars' = cars
           ELSE IF ~found.ok
           THEN /\ response' = Failure(found.exc)
                /\ cars' = cars
           ELSE IF update_car_forbidden(request.user, found.value)
           THEN /\ response' = update_car_not_authorized
                /\ cars' = cars
           ELSE LET row == car_update_car(found.value, parsed.value)
                IN  /\ cars' = [cars EXCEPT ![request.car_id] = row]
                    /\ response' = Success(row)
    /\ UNCHANGED <<now_year, boot_year, next_id, request>>

delete_car_not_authorized ==
    Failure(HTTPException(403, "You are not authorized to delete this car"))
delete_car_done == Success("deleted")

delete_car_forbidden_owner(current_user, db_car) ==
    current_user.user_type # ADMIN /\ db_car.owner_id = current_user.id

delete_car_forbidden(current_user, db_car) ==
    current_user.user_type # ADMIN /\ db_car.owner_id # current_user.id

delete_car ==
    /\ request.op = "delete_car"
    /\ response = Pending
    /\ LET found == car_get_car(cars, request.car_id)
       IN  IF ~found.ok
           THEN /\ response' = Failure(found.exc)
                /\ cars' = cars
           ELSE IF delete_car_forbidden(request.user, found.value)
           THEN /\ response' = delete_car_not_authorized
                /\ cars' = cars
           ELSE /\ cars' = car_delete_car(cars, request.car_id)
                /\ response' = delete_car_done
    /\ UNCHANGED <<now_year, boot_year, next_id, request>>

-----------------------------------------------------------------------------
(* The schemas applied on their own, as any caller constructing them does. *)

validate_year_call ==
    /\ request.op = "validate_year"
    /\ response = Pending
    /\ response' = validate_year(request.body, now_year)
    /\ UNCHANGED <<now_year, boot_year, cars, next_id, request>>

CarCreate_call ==
    /\ request.op = "CarCreate"
    /\ response = Pending
    /\ response' = CarCreate(request.body, now_year, boot_year)
    /\ UNCHANGED <<now_year, boot_year, cars, next_id, request>>

CarBase_call ==
    /\ request.op = "CarBase"
    /\ response = Pending
    /\ response' = CarBase(request.body, now_year, boot_year)
    /\ UNCHANGED <<now_year, boot_year, cars, next_id, request>>

CarUpdate_call ==
    /\ request.op = "CarUpdate"
    /\ response = Pending
    /\ response' = CarUpdate(request.body, now_year, boot_year)
    /\ UNCHANGED <<now_year, boot_year, cars, next_id, request>>

ReviewBase_call ==
    /\ request.op = "ReviewBase"
    /\ response = Pending
    /\ response' = ReviewBase(request.body)
    /\ UNCHANGED <<now_year, boot_year, cars, next_id, request>>

ReviewCreate_call ==
    /\ request.op = "ReviewCreate"
    /\ response = Pending
    /\ response' = ReviewCreate(request.body)
    /\ UNCHANGED <<now_year, boot_year, cars, next_id, request>>

-----------------------------------------------------------------------------
(* The environment: requests arrive one at a time, responses leave, and    *)
(* the calendar year turns between two requests.                           *)

Receive(requests) ==
    /\ request = Idle
    /\ \E r \in requests : request' = r
    /\ UNCHANGED <<now_year, boot_year, cars, next_id, response>>

Return ==
    /\ request # Idle
    /\ response # Pending
    /\ request' = Idle
    /\ response' = Pending
    /\ UNCHANGED <<now_year, boot_year, cars, next_id>>

NewYear ==
    /\ request = Idle
    /\ now_year < EarliestNow + ClockTicks
    /\ now_year' = now_year + 1
    /\ UNCHANGED <<boot_year, cars, next_id, request, response>>

-----------------------------------------------------------------------------
(* Inputs *)

YearInputs ==
    ((MinYear - YearSlack)..(MinYear + YearSlack))
        \cup ((now_year + 1 - YearSlack)..(now_year + 1 + YearSlack))

RatingInputs == (MinRating - RatingSlack)..(MaxRating + RatingSlack)

Comment(n) == [i \in 1..n |-> "x"]

CommentInputs ==
    {Comment(n) : n \in {0} \cup ((MaxCommentLength - CommentSlack)..
                                    (MaxCommentLength + CommentSlack))}

Optional(S) == {None} \cup {Some(v) : v \in S}

BaseBody ==
    [make |-> Some("Audi"), model |-> Some("A4"), year |-> Some(MinYear),
     transmission_type |-> Some("Manual"), motor_type |-> Some("Petrol"),
     price_per_day |-> Some(50), description |-> None, is_listed |-> None]

EmptyPatch == [f \in CarFields |-> None]

CarIdInputs == (MinCarId - 1)..MaxCars

(* Bodies for the schemas on their own: every combination of the members   *)
(* the validators read, the others as in BaseBody.                         *)
SchemaCarBodies ==
    {[BaseBody EXCEPT !.make = m, !.year = y, !.price_per_day = p,
                      !.transmission_type = t] :
        m \in Optional({"Audi"}),
        y \in Optional(YearInputs),
        p \in Optional({MinPrice - 1, MinPrice, 50}),
        t \in Optional({"Manual", "Warp"})}

(* A body that also carries an owner_id member. *)
WithOwner(b, o) ==
    [f \in CarFields \cup {"owner_id"} |-> IF f = "owner_id" THEN o ELSE b[f]]

SchemaCarBaseBodies ==
    {WithOwner(b, o) : b \in SchemaCarBodies, o \in Optional({1})}

ReviewBodies ==
    {[rental_id |-> r, reviewer_id |-> Some(1), reviewee_id |-> Some(2),
      rating |-> g, comment |-> c] :
        r \in Optional({1}),
        g \in Optional(RatingInputs),
        c \in Optional(CommentInputs)}

SchemaRequests(op, bodies) == {Request(op, None, None, b) : b \in bodies}

ReviewBaseRequests == SchemaRequests("ReviewBase", ReviewBodies)
ReviewCreateRequests == SchemaRequests("ReviewCreate", ReviewBodies)

(* Requests to the endpoints, by any user on any car id. *)
ApiCreateBodies == {BaseBody, WithOwner(BaseBody, Some(RegularUsers + 1))}

ApiPatches ==
    {[EmptyPatch EXCEPT !.price_per_day = Some(70)],
     [EmptyPatch EXCEPT !.price_per_day = Some(MinPrice - 1)],
     WithOwner([EmptyPatch EXCEPT !.is_listed = Some(FALSE)], Some(RegularUsers + 1))}

CreateRequests(users, bodies) ==
    {Request("create_car", u, None, b) :
        u \in users, b \in {c \in bodies : next_id <= MaxCars}}

GetRequests == {Request("get_car", None, i, None) : i \in CarIdInputs}

UpdateRequests(users, ids, bodies) ==
    {Request("update_car", u, i, b) : u \in users, i \in ids, b \in bodies}

DeleteRequests(users) ==
    {Request("delete_car", u, i, None) : u \in users, i \in CarIdInputs}

ApiUpdateRequests == UpdateRequests(Users, CarIdInputs, ApiPatches)
ApiDeleteRequests == DeleteRequests(Users)

(* Requests of one ordinary user that vary what is stored. *)
StoreBodies ==
    {[BaseBody EXCEPT !.price_per_day = Some(p), !.transmission_type = Some(t),
                      !.motor_type = Some(m)] :
        p \in {MinPrice - 1, MinPrice, 50},
        t \in {"Manual", "manual", "Warp"},
        m \in {"Petrol", "Warp"}}

StorePatches ==
    {[EmptyPatch EXCEPT !.price_per_day = Some(p)] : p \in {MinPrice - 1, 70}}
        \cup {[EmptyPatch EXCEPT !.transmission_type = Some(t)] :
                t \in {"Automatic", "Warp"}}
        \cup {[EmptyPatch EXCEPT !.motor_type = Some(m)] : m \in {"Electric", "Warp"}}

StoreUser == CHOOSE u \in Users : u.id = 1

StoreUpdateRequests == UpdateRequests({StoreUser}, CarIdInputs, StorePatches)

(* Patches to one stored car by its owner or the admin: every set of       *)
(* members present, and the two members the schema may reject.             *)
NewValue ==
    [make |-> Some("Fiat"), model |-> Some("500"), year |-> Some(MinYear + 1),
     transmission_type |-> Some("Automatic"), motor_type |-> Some("Electric"),
     price_per_day |-> Some(70), description |-> Some("clean"),
     is_listed |-> Some(FALSE)]

MergePatches ==
    {[f \in CarFields |-> IF f \in present THEN NewValue[f] ELSE None] :
        present \in SUBSET CarFields}
        \cup {[EmptyPatch EXCEPT !.year = Some(now_year + 2)],
              [EmptyPatch EXCEPT !.price_per_day = Some(MinPrice - 1)],
              [EmptyPatch EXCEPT !.year = Some(now_year + 2), !.make = Some("Fiat")]}

MergeUsers == {u \in Users : u.id = 1 \/ u.user_type = ADMIN}

-----------------------------------------------------------------------------
(* Specifications *)

Init ==
    /\ now_year \in EarliestNow..(EarliestNow + ClockTicks)
    /\ boot_year = now_year
    /\ cars = <<>>
    /\ next_id = MinCarId
    /\ request = Idle
    /\ response = Pending

(* The car endpoints, any user, any car; the year is that of the start. *)
Next ==
    \/ Receive(CreateRequests(Users, ApiCreateBodies))
    \/ Receive(GetRequests)
    \/ Receive(ApiUpdateRequests)
    \/ Receive(ApiDeleteRequests)
    \/ create_car
    \/ get_car
    \/ update_car
    \/ delete_car
    \/ Return

Spec == Init /\ [][Next]_vars

(* The schemas on their own. *)
NextSchema ==
    \/ Receive(SchemaRequests("validate_year", YearInputs))
    \/ Receive(SchemaRequests("CarCreate", SchemaCarBodies))
    \/ Receive(SchemaRequests("CarBase", SchemaCarBaseBodies))
    \/ Receive(SchemaRequests("CarUpdate", SchemaCarBodies))
    \/ Receive(ReviewBaseRequests)
    \/ Receive(ReviewCreateRequests)
    \/ validate_year_call
    \/ CarCreate_call
    \/ CarBase_call
    \/ CarUpdate_call
    \/ ReviewBase_call
    \/ ReviewCreate_call
    \/ Return
    \/ NewYear

SpecSchema == Init /\ [][NextSchema]_vars

(* One user creating and patching cars with varied contents. *)
NextStore ==
    \/ Receive(CreateRequests({StoreUser}, StoreBodies))
    \/ Receive(StoreUpdateRequests)
    \/ create_car
    \/ update_car
    \/ Return
    \/ NewYear

SpecStore == Init /\ [][NextStore]_vars

(* One stored car, created by user 1 from BaseBody, and patches to it. *)
InitMerge ==
    /\ now_year = EarliestNow
    /\ boot_year = now_year
    /\ cars = Insert(<<>>, car_create_car(MinCarId,
                  CarCreate(BaseBody, now_year, boot_year).value, 1))
    /\ next_id = MinCarId + 1
    /\ request = Idle
    /\ response = Pending

NextMerge ==
    \/ Receive(UpdateRequests(MergeUsers, {MinCarId}, MergePatches))
    \/ update_car
    \/ Return

SpecMerge == InitMerge /\ [][NextMerge]_vars

-----------------------------------------------------------------------------
(* Properties *)

(* The request `op` has been handled and its response is at hand. *)
Handled(op) == request.op = op /\ response # Pending

(* This step handles a request `op`. *)
Handling(op) == request.op = op /\ response = Pending /\ response' # Pending

YearAllowed(y) == MinYear <= y /\ y <= now_year + 1

\* C1: a submitted year y passes validate_year, called directly or by the
\* year validators of CarCreate, CarBase and CarUpdate (year present), and
\* comes back unchanged, iff 1900 <= y <= current year + 1.
C1_YearValidation ==
    /\ Handled("validate_year") =>
         /\ response.ok <=> YearAllowed(request.body)
         /\ response.ok => response.value = request.body
    /\ \A op \in {"CarCreate", "CarBase", "CarUpdate"} :
         (Handled(op) /\ ~IsNone(request.body.year)) =>
            /\ (YearValueError \cap response.errors = {})
                    <=> YearAllowed(request.body.year[1])
            /\ response.ok =>
                 IF op = "CarUpdate"
                 THEN response.value.year = request.body.year
                 ELSE response.value.year = request.body.year[1]

C1_Witness ==
    /\ Handled("CarUpdate")
    /\ request.body.year = Some(now_year + 1)
    /\ response.ok
    /\ response.value.year = Some(now_year + 1)

MayMutate(user, owner_id) == user.user_type = ADMIN \/ user.id = owner_id

(* update_car or delete_car is run on a car the table holds (for update_car, *)
(* with a body CarUpdate accepts: FastAPI runs the function only then).     *)
MutationCall(op) ==
    /\ Handling(op)
    /\ op = "update_car" => CarUpdate(request.body, now_year, boot_year).ok
    /\ request.car_id \in DOMAIN cars

\* C2: on an existing car, update_car and delete_car both let the acting user
\* through iff the user is an admin or the car's owner, and answer 403 otherwise.
C2_OwnerOrAdmin ==
    [][\A op \in {"update_car", "delete_car"} :
          MutationCall(op) =>
            LET allowed == MayMutate(request.user, cars[request.car_id].owner_id)
            IN  /\ response'.status_code = 200 <=> allowed
                /\ response'.status_code = 403 <=> ~allowed]_vars

C2_Witness ==
    /\ Handled("delete_car")
    /\ request.user.user_type = ADMIN
    /\ response = delete_car_done
    /\ request.car_id \notin DOMAIN cars

\* C3: update_car or delete_car by a user who is neither admin nor owner of the
\* existing car answers 403 Forbidden and leaves the cars table as it was.
C3_DeniedLeavesStorage ==
    [][\A op \in {"update_car", "delete_car"} :
          (/\ MutationCall(op)
           /\ request.user.user_type # ADMIN
           /\ request.user.id # cars[request.car_id].owner_id)
            => (response'.status_code = 403 /\ cars' = cars)]_vars

C3_Witness ==
    /\ Handled("update_car")
    /\ response = update_car_not_authorized
    /\ request.user.user_type # ADMIN
    /\ request.car_id \in DOMAIN cars
    /\ cars[request.car_id].owner_id # request.user.id
    /\ ~IsNone(request.body.price_per_day)
    /\ cars[request.car_id].price_per_day # request.body.price_per_day[1]

\* C4: every stored car has price_per_day >= 0.
C4_StoredPriceNonNegative ==
    \A i \in DOMAIN cars : cars[i].price_per_day >= MinPrice

\* C5: a submitted rating passes ReviewBase and ReviewCreate iff 1 <= rating <= 5.
C5_RatingRange ==
    \A op \in {"ReviewBase", "ReviewCreate"} :
        (Handled(op) /\ ~IsNone(request.body.rating)) =>
            ((RatingOutOfRangeError \cap response.errors = {})
                <=> (1 <= request.body.rating[1] /\ request.body.rating[1] <= 5))

C5_Witness ==
    /\ Handled("ReviewBase")
    /\ request.body.rating = Some(5)
    /\ response.ok
    /\ response.value.rating = 5

\* C6: a submitted comment passes ReviewBase and ReviewCreate iff it has at most
\* 500 characters.
C6_CommentLength ==
    \A op \in {"ReviewBase", "ReviewCreate"} :
        (Handled(op) /\ ~IsNone(request.body.comment)) =>
            ((CommentTooLongError \cap response.errors = {})
                <=> Len(request.body.comment[1]) <= 500)

C6_Witness ==
    /\ Handled("ReviewCreate")
    /\ ~IsNone(request.body.comment)
    /\ Len(request.body.comment[1]) = 500
    /\ response.ok
    /\ Len(response.value.comment) = 500

(* The members a patch supplies. *)
Present(body) == {f \in CarFields : ~IsNone(body[f])}

EnumViolation(body) ==
    \/ ~IsNone(body.transmission_type)
         /\ body.transmission_type[1] \notin CarTransmissionType
    \/ ~IsNone(body.motor_type) /\ body.motor_type[1] \notin CarEngineType

\* C8: create_car and update_car accept transmission_type and motor_type iff the
\* value belongs to its declared set; a value outside it is rejected (422) and
\* no stored car ever holds one.
C8_EnumMembership ==
    /\ \A i \in DOMAIN cars :
         /\ cars[i].transmission_type \in CarTransmissionType
         /\ cars[i].motor_type \in CarEngineType
    /\ \A op \in {"create_car", "update_car"} :
         (Handled(op) /\ EnumViolation(request.body)) => response.status_code = 422

\* C9: get_car, update_car and delete_car on a car id the table does not hold
\* answer with the NotFound of the service (404), and nothing is changed.
C9_NotFoundPropagated ==
    [][\A op \in {"get_car", "update_car", "delete_car"} :
          (/\ Handling(op)
           /\ op = "get_car" => request.car_id >= MinCarId
           /\ op = "update_car" => CarUpdate(request.body, now_year, boot_year).ok
           /\ request.car_id \notin DOMAIN cars)
            => (response'.status_code = 404 /\ cars' = cars)]_vars

\* C10: create_car stores the car under the acting user's id, whatever the body
\* says, and no later step changes the owner_id of a stored car.
C10_OwnerIsCreator ==
    [][/\ (Handling("create_car") /\ response'.status_code = 200) =>
            /\ DOMAIN cars' = DOMAIN cars \cup {next_id}
            /\ next_id \notin DOMAIN cars
            /\ cars'[next_id].owner_id = request.user.id
       /\ \A i \in DOMAIN cars \cap DOMAIN cars' :
            cars'[i].owner_id = cars[i].owner_id]_vars

C10_Witness ==
    /\ Handled("update_car")
    /\ response.status_code = 200
    /\ request.user.user_type = ADMIN
    /\ "owner_id" \in DOMAIN request.body
    /\ request.body.owner_id = Some(request.user.id)
    /\ cars[request.car_id].owner_id # request.user.id

====
